---- MODULE Spec2Model ----
(***************************************************************************)
(* State-machine model of utils/jd_fetcher.py: fetch_job_description, the  *)
(* fetch cascade it drives (requests fetch, schema.org extraction, HTML    *)
(* cleaning, trafilatura, Playwright) and the helpers that decide which    *)
(* stage wins.                                                             *)
(*                                                                         *)
(* Strings are modelled by the features the code reads from them.          *)
(*   text : [len, pad, junk, kw]                                           *)
(*          len  = number of characters of text.strip()                    *)
(*          pad  = leading/trailing whitespace characters (len(text) is    *)
(*                 len + pad)                                              *)
(*          junk = characters _final_cleanup removes from it               *)
(*          kw   = number of distinct JD_INDICATORS it contains            *)
(*          Python's None and "" are both the empty text: every use in     *)
(*          the code tests them by truthiness only.                        *)
(*   url  : [ws, bad, host, path, slug, id, jid, forp, token]              *)
(*          ws    = "empty", "blank", "padded" or "clean"                  *)
(*          bad   = the netloc holds an unbalanced bracket                 *)
(*          path  = "other", "jobs" (/jobs/<id>), "embed_job_app",         *)
(*                  "lever_post" (/<slug>/<id>), "lever_apply" (one        *)
(*                  trailing /apply), "lever_apply2" (/apply/apply),       *)
(*                  "careers_dash" (/careers-engineering/123), "via_lever" *)
(*                  (/r/jobs.lever.co/x)                                   *)
(*          jid, forp, token = the gh_jid, for and token query values:     *)
(*                  "" when the key is absent, "blank" when the key is     *)
(*                  there with an empty value                              *)
(***************************************************************************)
EXTENDS Integers, Sequences, FiniteSets, TLC

\* ---------------------------------------------------------------- constants
MIN_CONTENT_LENGTH == 1000
MAX_EXTRACTION_ATTEMPTS == 3
PW_MIN_LENGTH == 200
TRAF_MIN_LENGTH == 500
TRAF_MIN_KEYWORDS == 2
DESCRIPTION_LABEL_LEN == 13
HTTP_OK == 200

\* Lengths are sampled within Slack characters of every threshold the code tests.
Slack == 1

Near(t) == (t - Slack)..(t + Slack)

\* -------------------------------------------------------------------- texts
Text(l, p, j, k) == [len |-> l, pad |-> p, junk |-> j, kw |-> k]

EmptyText == Text(0, 0, 0, 0)

\* len(text)
RawLen(t) == t.len + t.pad

\* len(text.strip())
StripLen(t) == t.len

\* bool(text)
Truthy(t) == RawLen(t) > 0

\* --------------------------------------------------------------------- urls
Url(w, b, h, p, s, i, j, f, t) ==
    [ws |-> w, bad |-> b, host |-> h, path |-> p, slug |-> s, id |-> i,
     jid |-> j, forp |-> f, token |-> t]

\* "not url or not url.strip()"
IsBlank(u) == u.ws \in {"empty", "blank"}

\* url.strip()
Strip(u) == [u EXCEPT !.ws = IF u.ws = "padded" THEN "clean" ELSE u.ws]

\* urlparse(url) raises ValueError on a netloc with an unbalanced bracket.
UrlparseRaises(u) == u.bad

GreenhouseHosts == {"boards.greenhouse.io", "app.greenhouse.io"}

\* re.search over the whole lower-cased URL, one operator per pattern
MatchBoardsGreenhouse(u) == u.host = "boards.greenhouse.io"
MatchGreenhouseEmbed(u) == u.host \in GreenhouseHosts /\ u.path = "embed_job_app"
MatchGhJidDigits(u) == u.jid = "123"
MatchJobsLever(u) == u.host = "jobs.lever.co" \/ u.path = "via_lever"
LeverPaths == {"lever_post", "lever_apply", "lever_apply2"}
MatchLeverPosting(u) == u.host = "jobs.lever.co" /\ u.path \in LeverPaths
MatchWorkday(u) == u.host = "acme.myworkdayjobs.com"

\* parse_qs(urlparse(url).query) has the key; blank values are dropped by parse_qs
HasParam(v) == v \notin {"", "blank"}

_detect_greenhouse(u) ==
    \/ MatchBoardsGreenhouse(u)
    \/ MatchGreenhouseEmbed(u)
    \/ MatchGhJidDigits(u)
    \/ (~UrlparseRaises(u) /\ HasParam(u.jid))

_detect_lever(u) == MatchJobsLever(u) \/ MatchLeverPosting(u)

_detect_workday(u) == MatchWorkday(u)

\* "pattern in url_lower" for the patterns of ATS_SELECTORS["icims"]
MatchIcims(u) == u.host = "careers-acme.icims.com" \/ u.path = "careers_dash"

detect_source(u) ==
    IF _detect_greenhouse(u) THEN "greenhouse"
    ELSE IF _detect_lever(u) THEN "lever"
    ELSE IF _detect_workday(u) THEN "workday"
    ELSE IF MatchIcims(u) THEN "icims"
    ELSE IF u.host = "acme.taleo.net" THEN "taleo"
    ELSE IF u.host = "jobs.smartrecruiters.com" THEN "smartrecruiters"
    ELSE "generic"

\* the company token, "" for None
_extract_greenhouse_company(u) ==
    IF HasParam(u.forp) THEN u.forp
    ELSE IF u.host = "boards.greenhouse.io" /\ u.slug # "" THEN u.slug
    ELSE ""

GreenhouseJobUrl(slug, id) ==
    Url("clean", FALSE, "boards.greenhouse.io", "jobs", slug, id, "", "", "")

GreenhouseEmbedUrl(tok) ==
    Url("clean", FALSE, "boards.greenhouse.io", "embed_job_app", "", "", "", "", tok)

Resolved(u, w) == [url |-> u, was |-> w]

\* defined only where urlparse does not raise
_resolve_greenhouse_url(u) ==
    IF u.host = "boards.greenhouse.io" THEN Resolved(u, FALSE)
    ELSE IF HasParam(u.jid) THEN
        IF _extract_greenhouse_company(u) # ""
        THEN Resolved(GreenhouseJobUrl(_extract_greenhouse_company(u), u.jid), TRUE)
        ELSE Resolved(GreenhouseEmbedUrl(u.jid), TRUE)
    ELSE IF HasParam(u.token) /\ u.host \in GreenhouseHosts
        THEN Resolved(GreenhouseEmbedUrl(u.token), TRUE)
    ELSE IF u.path = "jobs" /\ u.id # "" /\ _extract_greenhouse_company(u) # ""
        THEN Resolved(GreenhouseJobUrl(_extract_greenhouse_company(u), u.id), TRUE)
    ELSE Resolved(u, FALSE)

\* re.sub(r'/apply/?$', '', path): one trailing "/apply" is removed per call
StripApply(p) ==
    IF p = "lever_apply2" THEN "lever_apply"
    ELSE IF p = "lever_apply" THEN "lever_post"
    ELSE p

\* the rebuilt url is scheme://netloc + path: the query is dropped
_resolve_lever_url(u) ==
    IF u.host # "jobs.lever.co" THEN Resolved(u, FALSE)
    ELSE IF StripApply(u.path) # u.path
        THEN Resolved(Url("clean", FALSE, u.host, StripApply(u.path), u.slug, u.id,
                          "", "", ""), TRUE)
    ELSE Resolved(u, FALSE)

\* resolve_url raises exactly where the platform's resolver calls urlparse
ResolveRaises(u, source) == source \in {"greenhouse", "lever"} /\ UrlparseRaises(u)

\* faulty variant: the trailing "/apply" is removed on every platform but Greenhouse
resolve_url_AnyPlatform(u, source) ==
    IF source = "greenhouse" THEN _resolve_greenhouse_url(u)
    ELSE IF StripApply(u.path) # u.path
        THEN Resolved([u EXCEPT !.path = StripApply(u.path)], TRUE)
    ELSE Resolved(u, FALSE)

resolve_url(u, source) ==
    IF source = "greenhouse" THEN _resolve_greenhouse_url(u)
    ELSE IF source = "lever" THEN _resolve_lever_url(u)
    ELSE Resolved(u, FALSE)

\* ----------------------------------------------------------------- validation
\* faulty variant: two distinct indicators are asked for
_is_content_valid_TwoKeywords(t) ==
    /\ Truthy(t)
    /\ StripLen(t) >= MIN_CONTENT_LENGTH
    /\ t.kw >= TRAF_MIN_KEYWORDS

\* faulty variant: the keyword test is left out
_is_content_valid_LengthOnly(t) ==
    /\ Truthy(t)
    /\ StripLen(t) >= MIN_CONTENT_LENGTH

\* faulty variant: the length is taken of a text that must already be trimmed
_is_content_valid_Trimmed(t) ==
    /\ Truthy(t)
    /\ t.pad = 0 /\ RawLen(t) >= MIN_CONTENT_LENGTH
    /\ t.kw >= 1

\* _is_content_valid
_is_content_valid(t) ==
    /\ Truthy(t)
    /\ StripLen(t) >= MIN_CONTENT_LENGTH
    /\ t.kw >= 1

\* is_meaningful_content(text, min_length)
is_meaningful_content(t, min_length) ==
    /\ RawLen(t) >= min_length
    /\ t.kw >= TRAF_MIN_KEYWORDS

\* _final_cleanup: drops junk lines and surrounding whitespace
_final_cleanup(t) == Text(t.len - t.junk, 0, 0, t.kw)

\* ------------------------------------------------------- fetched page (html)
\* html : [len, kw, schema, cleaned, traf]
\*   len     = len(html)
\*   kw      = number of distinct JD_INDICATORS in html.lower()
\*   schema  = what extract_schema_job_posting(html) returns:
\*             [found, desc], desc the length of its 'description' (0: none)
\*   cleaned = clean_html_content(html)
\*   traf    = extract_with_trafilatura(html, url)
Schema(f, d) == [found |-> f, desc |-> d]

NoSchema == Schema(FALSE, 0)

SchemaRecords == {NoSchema, Schema(TRUE, 0), Schema(TRUE, 40)}

extract_schema_job_posting(html) == html.schema

clean_html_content(html) == html.cleaned

extract_with_trafilatura(html) == html.traf

\* "schema_data and schema_data.get('description')"
HasDescription(s) == s.found /\ s.desc > 0

\* schema_to_text of a record that holds a description
schema_to_text(s) == Text(DESCRIPTION_LABEL_LEN + s.desc, 1, 0, 0)

\* clean_html_content ends with _final_cleanup: no padding, no junk left
CleanTexts ==
    {EmptyText} \cup
    {Text(l, 0, 0, k) : l \in {300} \cup Near(MIN_CONTENT_LENGTH), k \in {0, 1}}

TrafTexts ==
    {EmptyText} \cup
    {Text(l, 0, 0, k) : l \in Near(TRAF_MIN_LENGTH), k \in {1, 2}} \cup
    {Text(MIN_CONTENT_LENGTH + Slack, 0, 0, 1)}

\* the sampled pages: 600 characters with one indicator, 1500 with two
HtmlShapes == {<<600, 1>>, <<1500, 2>>}

\* what is extracted from a page is part of the page
Fits(t, html) == RawLen(t) <= html.len /\ t.kw <= html.kw

Htmls ==
    {html \in [len : {sh[1] : sh \in HtmlShapes}, kw : {sh[2] : sh \in HtmlShapes},
               schema : SchemaRecords, cleaned : CleanTexts, traf : TrafTexts] :
        /\ <<html.len, html.kw>> \in HtmlShapes
        /\ Fits(html.cleaned, html)
        /\ Fits(html.traf, html)}

NoHtml == [len |-> 0, kw |-> 0, schema |-> NoSchema, cleaned |-> EmptyText,
           traf |-> EmptyText]

\* ------------------------------------------------------------------- errors
\* error : [kind, http, code, pw, chars]; kind "None" is Python's None
Err(k, h, c, p, n) == [kind |-> k, http |-> h, code |-> c, pw |-> p, chars |-> n]

NoError == Err("None", "", 0, "", 0)

\* _fetch_with_requests: error_message of a non-200 response / of an exception
HttpError(code) == Err("http", "http", code, "", 0)

TimeoutError == Err("timeout", "timeout", 0, "", 0)

FailStatus == {404, 503}

FetchResult(ok, html, status, err) ==
    [success |-> ok, html |-> html, status_code |-> status, error_message |-> err]

NoFetch == FetchResult(FALSE, NoHtml, 0, NoError)

\* every FetchResult _fetch_with_requests can build
FetchResults ==
    {FetchResult(TRUE, h, HTTP_OK, NoError) : h \in Htmls} \cup
    {FetchResult(FALSE, NoHtml, c, HttpError(c)) : c \in FailStatus} \cup
    {FetchResult(FALSE, NoHtml, 0, TimeoutError)}

\* the pair _fetch_with_playwright returns; err "" is the empty message
PwRet(t, e, n) == [text |-> t, err |-> e, chars |-> n]

NoPwRet == PwRet(EmptyText, "unset", 0)

\* ------------------------------------------------------------------- result
Result(u, s, a, t, sd, r, e) ==
    [url |-> u, source |-> s, ats_type |-> a, raw_text |-> t, schema_data |-> sd,
     resolved_url |-> r, error |-> e]

ValidModes == {"auto", "requests", "playwright"}

Modes == ValidModes \cup {"fast"}

NoUrl == Url("empty", FALSE, "", "", "", "", "", "", "")

Urls ==
    { NoUrl,
      Url("blank", FALSE, "", "", "", "", "", "", ""),
      Url("padded", FALSE, "example.com", "other", "", "", "", "", ""),
      Url("clean", FALSE, "example.com", "other", "", "", "123", "", ""),
      Url("clean", TRUE, "example.com", "other", "", "", "123", "", ""),
      Url("clean", FALSE, "jobs.lever.co", "lever_apply", "acme", "1a2b", "", "", ""),
      Url("clean", FALSE, "acme.myworkdayjobs.com", "lever_apply", "acme", "1a2b", "", "", "") }

NoResult == Result(NoUrl, "", "", EmptyText, NoSchema, NoUrl, NoError)

ATS_SELECTORS == {"workday", "greenhouse", "lever", "icims", "taleo", "smartrecruiters"}

SEMANTIC_CONTAINERS == <<"main", "article", "body">>

\* what a selector's inner_text() can be on the rendered page
PageTexts ==
    {EmptyText, Text(0, 1, 0, 0)} \cup
    {Text(l, 0, j, 0) : l \in Near(PW_MIN_LENGTH) \cup Near(MIN_CONTENT_LENGTH), j \in {0, 1}}

\* ==================================================================== state
VARIABLES
    url,             \* the url argument, then url.strip()
    mode,            \* the mode argument
    pc,              \* position in fetch_job_description / _fetch_with_playwright
    exc,             \* the exception that left fetch_job_description, "" if none
    source,          \* detect_source(url)
    resolved,        \* (resolved_url, was_resolved)
    result,          \* the result dict
    fetch_result,    \* the last FetchResult
    staticLog,       \* one entry per _fetch_with_requests call: its url and outcome
    calls,           \* the component calls made so far, in order
    playwright,      \* the sync_playwright() scope: "none", "running", "stopped"
    browser,         \* the launched browser: "none", "open", "closed"
    extracted_text,  \* _fetch_with_playwright's candidate text
    attempt,         \* index of the running extraction attempt
    container,       \* index into SEMANTIC_CONTAINERS of the running inner loop
    pw_ret,          \* what _fetch_with_playwright returned
    pw_url,          \* the url argument of the _fetch_with_playwright call
    frame            \* the local variables of a helper function run on its own

vars ==
    <<url, mode, pc, exc, source, resolved, result, fetch_result, staticLog, calls,
      playwright, browser, extracted_text, attempt, container, pw_ret, pw_url, frame>>

\* fetch_job_description and _fetch_with_playwright never run a helper on its own
NoFrame == [fn |-> "none"]

pwVars ==
    <<playwright, browser, extracted_text, attempt, container, pw_ret, pw_url, frame>>

Init ==
    /\ url \in Urls
    /\ mode \in Modes
    /\ pc = "start"
    /\ exc = ""
    /\ source = ""
    /\ resolved = Resolved(NoUrl, FALSE)
    /\ result = NoResult
    /\ fetch_result = NoFetch
    /\ staticLog = <<>>
    /\ calls = <<>>
    /\ playwright = "none"
    /\ browser = "none"
    /\ extracted_text = EmptyText
    /\ attempt = 0
    /\ container = 1
    /\ pw_ret = NoPwRet
    /\ pw_url = NoUrl
    /\ frame = NoFrame

Called(name) == \E i \in 1..Len(calls) : calls[i] = name

CountCalls(name) == Cardinality({i \in 1..Len(calls) : calls[i] = name})

\* faulty variant: the original url is fetched even after a rewrite
fetch_url_to_use_Original == url

\* "resolved_url if was_resolved else url"
fetch_url_to_use == IF resolved.was THEN resolved.url ELSE url

\* ------------------------------------------------- fetch_job_description
\* lines 1165-1172: the two input checks, then url = url.strip()
\* faulty variant: the mode is never checked
InputError_NoModeCheck(u, m) ==
    IF IsBlank(u) THEN "ValueError: URL cannot be empty" ELSE ""

InputError(u, m) ==
    IF IsBlank(u) THEN "ValueError: URL cannot be empty"
    ELSE IF m \notin ValidModes THEN "ValueError: Invalid mode"
    ELSE ""

Validate ==
    /\ pc = "start"
    /\ IF InputError(url, mode) # ""
       THEN /\ pc' = "raised"
            /\ exc' = InputError(url, mode)
            /\ url' = url
       ELSE /\ pc' = "detect"
            /\ exc' = exc
            /\ url' = Strip(url)
    /\ UNCHANGED <<mode, source, resolved, result, fetch_result, staticLog, calls>>
    /\ UNCHANGED pwVars

\* line 1175
Detect ==
    /\ pc = "detect"
    /\ source' = detect_source(url)
    /\ calls' = Append(calls, "detect_source")
    /\ pc' = "resolve"
    /\ UNCHANGED <<url, mode, exc, resolved, result, fetch_result, staticLog>>
    /\ UNCHANGED pwVars

\* where each mode goes after the result dict is built
ModeEntry(m) ==
    IF m = "requests" THEN "requests_fetch"
    ELSE IF m = "playwright" THEN "pw_call"
    ELSE "auto_fetch"

\* lines 1178-1191: resolve_url is not guarded, its ValueError leaves the function
ResolveUrl ==
    /\ pc = "resolve"
    /\ calls' = Append(calls, "resolve_url")
    /\ IF ResolveRaises(url, source)
       THEN /\ pc' = "raised"
            /\ exc' = "ValueError: Invalid IPv6 URL"
            /\ UNCHANGED <<resolved, result>>
       ELSE /\ resolved' = resolve_url(url, source)
            /\ result' = Result(url, "", source, EmptyText, NoSchema,
                                IF resolved'.was THEN resolved'.url ELSE url, NoError)
            /\ pc' = ModeEntry(mode)
            /\ exc' = exc
    /\ UNCHANGED <<url, mode, source, fetch_result, staticLog>>
    /\ UNCHANGED pwVars

\* one _fetch_with_requests(target) call returning fr
Fetched(target, fr) ==
    /\ fr \in FetchResults
    /\ fetch_result' = fr
    /\ staticLog' = Append(staticLog, [url |-> target, success |-> fr.success])

\* faulty variant: every failed fetch is repeated
RetryOriginal_Always(fr, was) == ~fr.success

\* whether a failed first fetch is followed by a fetch of the original url
RetryOriginal(fr, was) == ~fr.success /\ was

\* lines 1209-1230: requests mode after a successful fetch
\* faulty variant: a record without description is stored before the cascade goes on
RequestsExtract_KeepsRecord(res, html) ==
    IF HasDescription(extract_schema_job_posting(html))
    THEN [res EXCEPT !.schema_data = extract_schema_job_posting(html),
                     !.raw_text = schema_to_text(extract_schema_job_posting(html)),
                     !.source = "schema"]
    ELSE IF _is_content_valid(clean_html_content(html))
    THEN [res EXCEPT !.schema_data = extract_schema_job_posting(html),
                     !.raw_text = clean_html_content(html)]
    ELSE [res EXCEPT !.schema_data = extract_schema_job_posting(html),
                     !.raw_text = clean_html_content(html),
                     !.error = Err("incomplete", "", 0, "", 0)]

\* faulty variant: cleaned text that fails the check is returned without an error
RequestsExtract_SilentIncomplete(res, html) ==
    IF HasDescription(extract_schema_job_posting(html))
    THEN [res EXCEPT !.schema_data = extract_schema_job_posting(html),
                     !.raw_text = schema_to_text(extract_schema_job_posting(html)),
                     !.source = "schema"]
    ELSE IF _is_content_valid(clean_html_content(html))
    THEN [res EXCEPT !.raw_text = clean_html_content(html)]
    ELSE IF /\ Truthy(extract_with_trafilatura(html))
            /\ RawLen(extract_with_trafilatura(html)) > RawLen(clean_html_content(html))
    THEN [res EXCEPT !.raw_text = extract_with_trafilatura(html),
                     !.source = "trafilatura"]
    ELSE [res EXCEPT !.raw_text = clean_html_content(html)]

RequestsExtract(res, html) ==
    IF HasDescription(extract_schema_job_posting(html))
    THEN [res EXCEPT !.schema_data = extract_schema_job_posting(html),
                     !.raw_text = schema_to_text(extract_schema_job_posting(html)),
                     !.source = "schema"]
    ELSE IF _is_content_valid(clean_html_content(html))
    THEN [res EXCEPT !.raw_text = clean_html_content(html)]
    ELSE IF /\ Truthy(extract_with_trafilatura(html))
            /\ RawLen(extract_with_trafilatura(html)) > RawLen(clean_html_content(html))
    THEN [res EXCEPT !.raw_text = extract_with_trafilatura(html),
                     !.source = "trafilatura"]
    ELSE [res EXCEPT !.raw_text = clean_html_content(html),
                     !.error = Err("incomplete", "", 0, "", 0)]

\* the extractor calls the static sequence makes on html, in order
RequestsExtractCalls(html) ==
    IF HasDescription(extract_schema_job_posting(html))
    THEN <<"extract_schema_job_posting">>
    ELSE IF _is_content_valid(clean_html_content(html))
    THEN <<"extract_schema_job_posting", "clean_html_content">>
    ELSE <<"extract_schema_job_posting", "clean_html_content", "extract_with_trafilatura">>

\* lines 1205-1207
RequestsFailure(res, fr) == [res EXCEPT !.error = fr.error_message]

\* lines 1197-1200
RequestsFetch ==
    /\ pc = "requests_fetch"
    /\ \E fr \in FetchResults :
        /\ Fetched(fetch_url_to_use, fr)
        /\ calls' = Append(calls, "_fetch_with_requests")
        /\ IF fr.success
           THEN /\ result' = [result EXCEPT !.source = "requests"]
                /\ pc' = "requests_extract"
           ELSE IF RetryOriginal(fr, resolved.was)
           THEN /\ result' = [result EXCEPT !.source = "requests"]
                /\ pc' = "requests_retry"
           ELSE /\ result' = RequestsFailure([result EXCEPT !.source = "requests"], fr)
                /\ pc' = "done"
    /\ UNCHANGED <<url, mode, exc, source, resolved>>
    /\ UNCHANGED pwVars

\* lines 1202-1207
RequestsRetry ==
    /\ pc = "requests_retry"
    /\ \E fr \in FetchResults :
        /\ Fetched(url, fr)
        /\ calls' = Append(calls, "_fetch_with_requests")
        /\ IF fr.success
           THEN /\ result' = result
                /\ pc' = "requests_extract"
           ELSE /\ result' = RequestsFailure(result, fr)
                /\ pc' = "done"
    /\ UNCHANGED <<url, mode, exc, source, resolved>>
    /\ UNCHANGED pwVars

\* lines 1209-1230
RequestsFinish ==
    /\ pc = "requests_extract"
    /\ result' = RequestsExtract(result, fetch_result.html)
    /\ calls' = calls \o RequestsExtractCalls(fetch_result.html)
    /\ pc' = "done"
    /\ UNCHANGED <<url, mode, exc, source, resolved, fetch_result, staticLog>>
    /\ UNCHANGED pwVars

\* lines 1252-1254
AutoFetch ==
    /\ pc = "auto_fetch"
    /\ \E fr \in FetchResults :
        /\ Fetched(fetch_url_to_use, fr)
        /\ calls' = Append(calls, "_fetch_with_requests")
        /\ pc' = IF RetryOriginal(fr, resolved.was) THEN "auto_retry" ELSE "auto_extract"
    /\ UNCHANGED <<url, mode, exc, source, resolved, result>>
    /\ UNCHANGED pwVars

\* line 1256
AutoRetry ==
    /\ pc = "auto_retry"
    /\ \E fr \in FetchResults :
        /\ Fetched(url, fr)
        /\ calls' = Append(calls, "_fetch_with_requests")
        /\ pc' = "auto_extract"
    /\ UNCHANGED <<url, mode, exc, source, resolved, result>>
    /\ UNCHANGED pwVars

\* faulty variant: any non-empty cleaned text is returned without validation
AutoStaticAccepts_AnyText(fr) ==
    /\ fr.success
    /\ \/ HasDescription(extract_schema_job_posting(fr.html))
       \/ Truthy(clean_html_content(fr.html))
       \/ is_meaningful_content(extract_with_trafilatura(fr.html), TRAF_MIN_LENGTH)

\* lines 1258-1280: TRUE when one of steps 2-4 returns the result
AutoStaticAccepts(fr) ==
    /\ fr.success
    /\ \/ HasDescription(extract_schema_job_posting(fr.html))
       \/ _is_content_valid(clean_html_content(fr.html))
       \/ is_meaningful_content(extract_with_trafilatura(fr.html), TRAF_MIN_LENGTH)

\* faulty variant: valid cleaned text is preferred to the structured record
AutoStaticResult_CleanFirst(res, html) ==
    IF _is_content_valid(clean_html_content(html))
    THEN [res EXCEPT !.source = "requests", !.raw_text = clean_html_content(html)]
    ELSE IF HasDescription(extract_schema_job_posting(html))
    THEN [res EXCEPT !.schema_data = extract_schema_job_posting(html),
                     !.raw_text = schema_to_text(extract_schema_job_posting(html)),
                     !.source = "schema"]
    ELSE [res EXCEPT !.source = "trafilatura",
                     !.raw_text = extract_with_trafilatura(html)]

AutoStaticResult(res, html) ==
    IF HasDescription(extract_schema_job_posting(html))
    THEN [res EXCEPT !.schema_data = extract_schema_job_posting(html),
                     !.raw_text = schema_to_text(extract_schema_job_posting(html)),
                     !.source = "schema"]
    ELSE IF _is_content_valid(clean_html_content(html))
    THEN [res EXCEPT !.source = "requests", !.raw_text = clean_html_content(html)]
    ELSE [res EXCEPT !.source = "trafilatura",
                     !.raw_text = extract_with_trafilatura(html)]

AutoExtractCalls(fr) ==
    IF ~fr.success THEN <<>>
    ELSE RequestsExtractCalls(fr.html)

\* lines 1258-1280
AutoExtract ==
    /\ pc = "auto_extract"
    /\ calls' = calls \o AutoExtractCalls(fetch_result)
    /\ IF AutoStaticAccepts(fetch_result)
       THEN /\ result' = AutoStaticResult(result, fetch_result.html)
            /\ pc' = "done"
       ELSE /\ result' = result
            /\ pc' = "pw_call"
    /\ UNCHANGED <<url, mode, exc, source, resolved, fetch_result, staticLog>>
    /\ UNCHANGED pwVars

\* ------------------------------------------------ _fetch_with_playwright
orchVars == <<url, mode, exc, source, resolved, result, fetch_result, staticLog, frame>>

\* what a step inside _fetch_with_playwright leaves alone: the caller's state
\* and the function's own url argument
inPwFrame == <<orchVars, pw_url>>

\* faulty variant: the Playwright scope is left without stopping its browser
WithExit_Leak(b) == b

\* leaving the "with sync_playwright() as p:" block stops the Playwright driver,
\* which ends a browser that is still open
WithExit(b) == IF b = "open" THEN "closed" ELSE b

\* "except Exception as e" of line 1126, reached from inside the with block
PlaywrightError == PwRet(EmptyText, "Playwright error", 0)

\* first step of an extraction attempt
LoopStart(src) == IF src = "greenhouse" THEN "att_iframe" ELSE "att_ats"

\* "not extracted_text or len(extracted_text.strip()) < n"
Below(t, n) == ~Truthy(t) \/ StripLen(t) < n

\* "x and len(x.strip()) > len(extracted_text.strip())"
Longer(x, t) == Truthy(x) /\ StripLen(x) > StripLen(t)

\* a faulty variant: the latest non-empty candidate replaces the kept one
Keep_Latest(x, t) == IF Truthy(x) THEN x ELSE t

\* the candidate kept after a step offered x
Keep(x, t) == IF Longer(x, t) THEN x ELSE t

\* "len(extracted_text.strip()) >= CONTENT_THRESHOLD" after the candidate changed
Reached(x, t) == Longer(x, t) /\ StripLen(x) >= MIN_CONTENT_LENGTH

\* _extract_from_greenhouse_iframe: a frame text only when longer than 200
IframeText(x) == IF Truthy(x) /\ StripLen(x) > PW_MIN_LENGTH THEN x ELSE EmptyText

\* lines 1017-1024
PwStart ==
    /\ pc = "pw_call"
    /\ calls' = Append(calls, "_fetch_with_playwright")
    /\ pw_url' = fetch_url_to_use
    /\ \E installed \in BOOLEAN :
        IF installed
        THEN /\ pc' = "pw_launch"
             /\ pw_ret' = NoPwRet
        ELSE /\ pc' = "pw_return"
             /\ pw_ret' = PwRet(EmptyText, "Playwright is not installed", 0)
    /\ UNCHANGED <<playwright, browser, extracted_text, attempt, container>>
    /\ UNCHANGED orchVars

\* lines 1027-1028
PwLaunch ==
    /\ pc = "pw_launch"
    /\ \E launched \in BOOLEAN :
        IF launched
        THEN /\ playwright' = "running"
             /\ browser' = "open"
             /\ pc' = "pw_context"
             /\ pw_ret' = pw_ret
        ELSE /\ playwright' = "stopped"
             /\ browser' = "none"
             /\ pc' = "pw_return"
             /\ pw_ret' = PlaywrightError
    /\ UNCHANGED <<extracted_text, attempt, container, calls>>
    /\ UNCHANGED inPwFrame

\* lines 1030-1035: new_context / new_page
PwContext ==
    /\ pc = "pw_context"
    /\ \E created \in BOOLEAN :
        IF created
        THEN /\ pc' = "pw_goto"
             /\ UNCHANGED <<playwright, browser, pw_ret>>
        ELSE /\ playwright' = "stopped"
             /\ browser' = WithExit(browser)
             /\ pc' = "pw_return"
             /\ pw_ret' = PlaywrightError
    /\ UNCHANGED <<extracted_text, attempt, container, calls>>
    /\ UNCHANGED inPwFrame

\* browser.close() followed by "return ret"; a close() that raises lands in line 1126
CloseAndReturn(closed, ret) ==
    /\ playwright' = "stopped"
    /\ browser' = IF closed THEN "closed" ELSE WithExit(browser)
    /\ pw_ret' = IF closed THEN ret ELSE PlaywrightError
    /\ pc' = "pw_return"

\* lines 1037-1044
PwGoto ==
    /\ pc = "pw_goto"
    /\ \/ /\ pc' = "pw_wait"
          /\ UNCHANGED <<playwright, browser, pw_ret>>
       \/ \E closed \in BOOLEAN :
            CloseAndReturn(closed, PwRet(EmptyText, "Page load timed out (30s)", 0))
       \/ \E closed \in BOOLEAN :
            CloseAndReturn(closed, PwRet(EmptyText, "Navigation error", 0))
    /\ UNCHANGED <<extracted_text, attempt, container, calls>>
    /\ UNCHANGED inPwFrame

\* lines 1047-1057: selector waits (their exceptions are caught), hydration delay
PwWait ==
    /\ pc = "pw_wait"
    /\ extracted_text' = EmptyText
    /\ attempt' = 0
    /\ container' = 1
    /\ pc' = LoopStart(source)
    /\ UNCHANGED <<playwright, browser, pw_ret, calls>>
    /\ UNCHANGED inPwFrame

\* lines 1061-1066
AttIframe ==
    /\ pc = "att_iframe"
    /\ \E x \in PageTexts :
        /\ extracted_text' = Keep(IframeText(x), extracted_text)
        /\ pc' = IF Reached(IframeText(x), extracted_text) THEN "pw_close"
                 ELSE "att_content"
    /\ UNCHANGED <<playwright, browser, attempt, container, pw_ret, calls>>
    /\ UNCHANGED inPwFrame

\* lines 1068-1077: x is the #content text, empty when the wait or query fails
GhContentKeep(x, t) ==
    IF Below(t, PW_MIN_LENGTH) /\ Truthy(x) /\ StripLen(x) > PW_MIN_LENGTH THEN x ELSE t

AttContent ==
    /\ pc = "att_content"
    /\ \E x \in PageTexts :
        /\ extracted_text' = GhContentKeep(x, extracted_text)
        /\ pc' = IF /\ extracted_text' # extracted_text
                    /\ StripLen(extracted_text') >= MIN_CONTENT_LENGTH
                 THEN "pw_close" ELSE "att_ats"
    /\ UNCHANGED <<playwright, browser, attempt, container, pw_ret, calls>>
    /\ UNCHANGED inPwFrame

\* lines 1080-1091: the platform selector is tried only below 200 characters
AtsTried(t, src) == Below(t, PW_MIN_LENGTH) /\ src # "generic" /\ src \in ATS_SELECTORS

AttAts ==
    /\ pc = "att_ats"
    /\ \E x \in PageTexts :
        /\ extracted_text' =
              IF AtsTried(extracted_text, source) THEN Keep(x, extracted_text)
              ELSE extracted_text
        /\ pc' = IF AtsTried(extracted_text, source) /\ Reached(x, extracted_text)
                 THEN "pw_close"
                 ELSE IF Below(extracted_text', MIN_CONTENT_LENGTH) THEN "att_semantic"
                 ELSE "att_all"
    /\ container' = 1
    /\ UNCHANGED <<playwright, browser, attempt, pw_ret, calls>>
    /\ UNCHANGED inPwFrame

\* lines 1095-1103: one container of the inner loop
AttSemantic ==
    /\ pc = "att_semantic"
    /\ \E x \in PageTexts :
        /\ extracted_text' = Keep(x, extracted_text)
        /\ IF Reached(x, extracted_text)
           THEN pc' = "pw_close" /\ container' = container
           ELSE IF container < Len(SEMANTIC_CONTAINERS)
           THEN pc' = "att_semantic" /\ container' = container + 1
           ELSE /\ pc' = IF StripLen(extracted_text') >= MIN_CONTENT_LENGTH
                         THEN "pw_close" ELSE "att_all"
                /\ container' = container
    /\ UNCHANGED <<playwright, browser, attempt, pw_ret, calls>>
    /\ UNCHANGED inPwFrame

\* lines 1106-1114: all page text, then the next attempt
AttAll ==
    /\ pc = "att_all"
    /\ \E x \in PageTexts :
        /\ extracted_text' =
              IF Below(extracted_text, PW_MIN_LENGTH) THEN Keep(x, extracted_text)
              ELSE extracted_text
        /\ IF Below(extracted_text, PW_MIN_LENGTH) /\ Reached(x, extracted_text)
           THEN pc' = "pw_close" /\ attempt' = attempt
           ELSE IF attempt + 1 < MAX_EXTRACTION_ATTEMPTS
           THEN pc' = LoopStart(source) /\ attempt' = attempt + 1
           ELSE pc' = "pw_close" /\ attempt' = attempt
    /\ UNCHANGED <<playwright, browser, container, pw_ret, calls>>
    /\ UNCHANGED inPwFrame

\* faulty variant: the 200-character floor is applied before the final cleanup
PwResult_RawFloor(t) ==
    IF Below(t, PW_MIN_LENGTH)
    THEN PwRet(EmptyText, "Content too short", StripLen(t))
    ELSE PwRet(_final_cleanup(t), "", 0)

\* lines 1119-1124
PwResult(t) ==
    IF RawLen(IF Truthy(t) THEN _final_cleanup(t) ELSE EmptyText) < PW_MIN_LENGTH
    THEN PwRet(EmptyText, "Content too short",
               RawLen(IF Truthy(t) THEN _final_cleanup(t) ELSE EmptyText))
    ELSE PwRet(_final_cleanup(t), "", 0)

\* lines 1116-1124
PwClose ==
    /\ pc = "pw_close"
    /\ \E closed \in BOOLEAN : CloseAndReturn(closed, PwResult(extracted_text))
    /\ UNCHANGED <<extracted_text, attempt, container, calls>>
    /\ UNCHANGED inPwFrame

\* ------------------------------------------ fetch_job_description, the end
\* "text and len(text.strip()) > 200"
PlaywrightAccepted(t) == Truthy(t) /\ StripLen(t) > PW_MIN_LENGTH

\* "error or 'Failed to extract content with Playwright'"
PlaywrightModeError(ret) ==
    IF ret.err # "" THEN Err("playwright", "", 0, ret.err, ret.chars)
    ELSE Err("playwright", "", 0, "Failed to extract content with Playwright", 0)

\* lines 1236-1245
PlaywrightResult(res, ret) ==
    IF PlaywrightAccepted(ret.text)
    THEN [res EXCEPT !.source = "playwright", !.raw_text = ret.text]
    ELSE [res EXCEPT !.source = "playwright", !.raw_text = ret.text,
                     !.error = PlaywrightModeError(ret)]

PlaywrightFinish ==
    /\ pc = "pw_return"
    /\ mode = "playwright"
    /\ result' = PlaywrightResult(result, pw_ret)
    /\ pc' = "done"
    /\ UNCHANGED <<url, mode, exc, source, resolved, fetch_result, staticLog, calls>>
    /\ UNCHANGED pwVars

\* line 1295
BestText(cleaned, traf) ==
    IF RawLen(cleaned) > RawLen(traf) THEN cleaned
    ELSE IF Truthy(traf) THEN traf ELSE cleaned

\* lines 1304-1305
CompleteFailure(res, fr, ret) ==
    [res EXCEPT !.source = "none",
                !.error = IF fr.success
                          THEN Err("failed", "OK but short", 0, ret.err, ret.chars)
                          ELSE Err("failed", fr.error_message.kind,
                                   fr.error_message.code, ret.err, ret.chars)]

\* lines 1285-1307
AutoResult(res, fr, ret) ==
    IF PlaywrightAccepted(ret.text)
    THEN [res EXCEPT !.source = "playwright", !.raw_text = ret.text]
    ELSE IF /\ fr.success
            /\ Truthy(BestText(clean_html_content(fr.html),
                               extract_with_trafilatura(fr.html)))
    THEN [res EXCEPT !.source = "requests",
                     !.raw_text = BestText(clean_html_content(fr.html),
                                           extract_with_trafilatura(fr.html)),
                     !.error = Err("incomplete", "", 0, ret.err, ret.chars)]
    ELSE CompleteFailure(res, fr, ret)

AutoFinishCalls(fr, ret) ==
    IF ~PlaywrightAccepted(ret.text) /\ fr.success
    THEN <<"clean_html_content", "extract_with_trafilatura">>
    ELSE <<>>

AutoFinish ==
    /\ pc = "pw_return"
    /\ mode = "auto"
    /\ result' = AutoResult(result, fetch_result, pw_ret)
    /\ calls' = calls \o AutoFinishCalls(fetch_result, pw_ret)
    /\ pc' = "done"
    /\ UNCHANGED <<url, mode, exc, source, resolved, fetch_result, staticLog>>
    /\ UNCHANGED pwVars

Next ==
    \/ Validate
    \/ Detect
    \/ ResolveUrl
    \/ RequestsFetch
    \/ RequestsRetry
    \/ RequestsFinish
    \/ AutoFetch
    \/ AutoRetry
    \/ AutoExtract
    \/ PwStart
    \/ PwLaunch
    \/ PwContext
    \/ PwGoto
    \/ PwWait
    \/ AttIframe
    \/ AttContent
    \/ AttAts
    \/ AttSemantic
    \/ AttAll
    \/ PwClose
    \/ PlaywrightFinish
    \/ AutoFinish

Spec == Init /\ [][Next]_vars

\* the call runs to its end: no step of a sequential function waits on another
FairSpec == Spec /\ WF_vars(Next)

Terminal == pc \in {"done", "raised"}

\* ------------------------------------- detect_source and resolve_url alone
\* The two calls of lines 1175 and 1178 over a wider set of urls, followed by a
\* second resolve_url call on the url the first one returned.
UrlHosts ==
    {"example.com", "jobs.lever.co", "acme.myworkdayjobs.com", "careers-acme.icims.com",
     "acme.taleo.net", "jobs.smartrecruiters.com", "app.greenhouse.io",
     "boards.greenhouse.io"}

UrlPaths == {"other", "jobs", "embed_job_app", "careers_dash", "via_lever"} \cup LeverPaths

\* the path segments a path kind holds
PathSlug(p) == IF p \in LeverPaths THEN "acme" ELSE ""
PathId(p) == IF p \in LeverPaths THEN "1a2b" ELSE IF p = "jobs" THEN "77" ELSE ""

UrlInputs ==
    {Url("clean", b, h, p, PathSlug(p), PathId(p), j, f, t) :
        b \in BOOLEAN, h \in UrlHosts, p \in UrlPaths,
        j \in {"", "blank", "123", "abc"}, f \in {"", "acme"}, t \in {"", "blank", "55"}}

UrlInit ==
    /\ url \in UrlInputs
    /\ mode = "auto"
    /\ pc = "url_detect"
    /\ exc = ""
    /\ source = ""
    /\ resolved = Resolved(NoUrl, FALSE)
    /\ result = NoResult
    /\ fetch_result = NoFetch
    /\ staticLog = <<>>
    /\ calls = <<>>
    /\ playwright = "none"
    /\ browser = "none"
    /\ extracted_text = EmptyText
    /\ attempt = 0
    /\ container = 1
    /\ pw_ret = NoPwRet
    /\ pw_url = NoUrl
    /\ frame = NoFrame

\* line 1175
UrlDetect ==
    /\ pc = "url_detect"
    /\ source' = detect_source(url)
    /\ calls' = Append(calls, "detect_source")
    /\ pc' = "url_resolve"
    /\ UNCHANGED <<url, mode, exc, resolved, result, fetch_result, staticLog>>
    /\ UNCHANGED pwVars

\* resolve_url(u, src): the pair it returns, or the ValueError of urlparse
UrlResolveCall(u, src, next) ==
    /\ calls' = Append(calls, "resolve_url")
    /\ IF ResolveRaises(u, src)
       THEN /\ pc' = "url_raised"
            /\ exc' = "ValueError: Invalid IPv6 URL"
            /\ resolved' = resolved
       ELSE /\ resolved' = resolve_url(u, src)
            /\ pc' = next
            /\ exc' = exc

\* line 1178
UrlResolve ==
    /\ pc = "url_resolve"
    /\ UrlResolveCall(url, source, "url_resolved")
    /\ UNCHANGED <<url, mode, source, result, fetch_result, staticLog>>
    /\ UNCHANGED pwVars

\* resolve_url applied to the url it returned, with the same platform
UrlResolveAgain ==
    /\ pc = "url_resolved"
    /\ url' = resolved.url
    /\ UrlResolveCall(resolved.url, source, "url_again")
    /\ UNCHANGED <<mode, source, result, fetch_result, staticLog>>
    /\ UNCHANGED pwVars

UrlNext ==
    \/ UrlDetect
    \/ UrlResolve
    \/ UrlResolveAgain

UrlSpec == UrlInit /\ [][UrlNext]_vars

\* ------------------------------------------------- _is_content_valid alone
JD_INDICATORS ==
    {"responsibilities", "requirements", "qualifications", "experience", "skills",
     "about the role", "what you'll do", "who you are", "job description", "duties",
     "benefits", "salary", "apply", "position"}

\* the phrases a sampled text is written with
Phrases ==
    {"lorem ipsum", "Responsibilities", "QUALIFICATIONS", "Who You Are",
     "Job Description", "reapply"}

\* _has_jd_indicators on one phrase: the indicators that are substrings of
\* phrase.lower()
IndicatorsIn(phrase) ==
    CASE phrase = "Responsibilities" -> {"responsibilities"}
      [] phrase = "QUALIFICATIONS" -> {"qualifications"}
      [] phrase = "Who You Are" -> {"who you are"}
      [] phrase = "Job Description" -> {"job description"}
      [] phrase = "reapply" -> {"apply"}
      [] OTHER -> {}

\* a written text: lead and trail are its surrounding whitespace, body the length
\* of text.strip(), phrases what it says (an all-whitespace text is all lead)
Written(l, b, t, ps) == [lead |-> l, body |-> b, trail |-> t, phrases |-> ps]

\* the features the validator reads from a written text
ToText(w) ==
    Text(w.body, w.lead + w.trail, 0,
         Cardinality(UNION {IndicatorsIn(p) \cap JD_INDICATORS : p \in w.phrases}))

\* t + s
Concat(t, s) ==
    IF s.body = 0
    THEN IF t.body = 0
         THEN Written(t.lead + s.lead, 0, 0, {})
         ELSE [t EXCEPT !.trail = t.trail + s.lead]
    ELSE IF t.body = 0
    THEN [s EXCEPT !.lead = t.lead + s.lead]
    ELSE Written(t.lead, t.body + t.trail + s.lead + s.body, s.trail,
                 t.phrases \cup s.phrases)

ValidatorTexts ==
    {Written(l, 0, 0, {}) : l \in {0, 1}} \cup
    {Written(l, b, t, ps) :
        l \in {0, 1}, b \in Near(MIN_CONTENT_LENGTH), t \in {0, 1},
        ps \in {{}} \cup {{p} : p \in Phrases} \cup {{"lorem ipsum", "reapply"}}}

Suffixes ==
    {Written(l, 0, 0, {}) : l \in {0, 1}} \cup
    {Written(l, 11, 0, {p}) : l \in {0, 1}, p \in {"lorem ipsum", "reapply"}}

ValidatorFrame(t, s, r, ra) ==
    [fn |-> "_is_content_valid", text |-> t, suffix |-> s, ret |-> r, ret_appended |-> ra]

ValidatorInit ==
    /\ frame \in {ValidatorFrame(t, s, FALSE, FALSE) : t \in ValidatorTexts, s \in Suffixes}
    /\ pc = "valid_call"
    /\ url = NoUrl
    /\ mode = "auto"
    /\ exc = ""
    /\ source = ""
    /\ resolved = Resolved(NoUrl, FALSE)
    /\ result = NoResult
    /\ fetch_result = NoFetch
    /\ staticLog = <<>>
    /\ calls = <<>>
    /\ playwright = "none"
    /\ browser = "none"
    /\ extracted_text = EmptyText
    /\ attempt = 0
    /\ container = 1
    /\ pw_ret = NoPwRet
    /\ pw_url = NoUrl

\* what a helper run on its own leaves alone
helperFrame ==
    <<url, mode, exc, source, resolved, result, fetch_result, staticLog, calls,
      playwright, browser, extracted_text, attempt, container, pw_ret, pw_url>>

\* _is_content_valid(text)
ValidateText ==
    /\ pc = "valid_call"
    /\ frame' = [frame EXCEPT !.ret = _is_content_valid(ToText(frame.text))]
    /\ pc' = "valid_append"
    /\ UNCHANGED helperFrame

\* _is_content_valid(text + suffix)
ValidateAppended ==
    /\ pc = "valid_append"
    /\ frame' = [frame EXCEPT
                    !.ret_appended = _is_content_valid(ToText(Concat(frame.text, frame.suffix)))]
    /\ pc' = "valid_done"
    /\ UNCHANGED helperFrame

ValidatorNext ==
    \/ ValidateText
    \/ ValidateAppended

ValidatorSpec == ValidatorInit /\ [][ValidatorNext]_vars

\* what a helper run on its own finds in the variables of fetch_job_description
helperIdle ==
    /\ url = NoUrl
    /\ mode = "auto"
    /\ exc = ""
    /\ source = ""
    /\ resolved = Resolved(NoUrl, FALSE)
    /\ result = NoResult
    /\ fetch_result = NoFetch
    /\ staticLog = <<>>
    /\ calls = <<>>
    /\ playwright = "none"
    /\ browser = "none"
    /\ extracted_text = EmptyText
    /\ attempt = 0
    /\ container = 1
    /\ pw_ret = NoPwRet
    /\ pw_url = NoUrl

\* -------------------------------------------- _remove_legal_sections alone
\* line : [len, legal, colon]
\*   len   = len(line.strip()), 0 for a blank line
\*   legal = LEGAL_REGEX.search finds a match in it
\*   colon = line.strip() ends with ':'
LEGAL_TRIGGER_LIMIT == 100
SECTION_HEADING_LIMIT == 60
MaxLines == 4

Line(n, lg, c) == [len |-> n, legal |-> lg, colon |-> c]
BlankLine == Line(0, FALSE, FALSE)

LineShapes ==
    {BlankLine} \cup
    {Line(SECTION_HEADING_LIMIT - 1, lg, c) : lg \in BOOLEAN, c \in BOOLEAN} \cup
    {Line(SECTION_HEADING_LIMIT, FALSE, TRUE),
     Line(LEGAL_TRIGGER_LIMIT - 1, TRUE, FALSE),
     Line(LEGAL_TRIGGER_LIMIT, TRUE, FALSE)}

SeqsUpTo(S, n) == UNION {[1..k -> S] : k \in 0..n}

\* the local state of the loop: cleaned_lines holds the positions (in lines) of
\* the lines appended so far
LegalState(cl, skip) == [cleaned_lines |-> cl, skip_until_section |-> skip]

\* a faulty variant: a blank line ends the skipped section
LegalStep_BlankResets(st, lines, i) ==
    LET line_stripped == lines[i]
        cl == st.cleaned_lines
    IN  IF line_stripped.len = 0
        THEN IF cl # <<>> /\ lines[cl[Len(cl)]].len # 0
             THEN LegalState(Append(cl, i), FALSE)
             ELSE LegalState(cl, FALSE)
        ELSE IF line_stripped.legal
        THEN LegalState(cl, st.skip_until_section
                            \/ line_stripped.len < LEGAL_TRIGGER_LIMIT)
        ELSE LET skip == /\ st.skip_until_section
                         /\ ~(/\ line_stripped.len < SECTION_HEADING_LIMIT
                              /\ line_stripped.colon)
             IN  LegalState(IF skip THEN cl ELSE Append(cl, i), skip)

\* one iteration of `for line in lines`, on lines[i]
LegalStep(st, lines, i) ==
    LET line_stripped == lines[i]
        cl == st.cleaned_lines
    IN  IF line_stripped.len = 0
        THEN IF cl # <<>> /\ lines[cl[Len(cl)]].len # 0
             THEN LegalState(Append(cl, i), st.skip_until_section)
             ELSE st
        ELSE IF line_stripped.legal
        THEN LegalState(cl, st.skip_until_section
                            \/ line_stripped.len < LEGAL_TRIGGER_LIMIT)
        ELSE LET skip == /\ st.skip_until_section
                         /\ ~(/\ line_stripped.len < SECTION_HEADING_LIMIT
                              /\ line_stripped.colon)
             IN  LegalState(IF skip THEN cl ELSE Append(cl, i), skip)

RECURSIVE LegalFold(_, _, _)
LegalFold(st, lines, i) ==
    IF i > Len(lines) THEN st ELSE LegalFold(LegalStep(st, lines, i), lines, i + 1)

\* the positions of the lines _remove_legal_sections joins into its result
_remove_legal_sections(lines) == LegalFold(LegalState(<<>>, FALSE), lines, 1).cleaned_lines

LegalFrame(lines, i, st) ==
    [fn |-> "_remove_legal_sections", lines |-> lines, i |-> i,
     cleaned_lines |-> st.cleaned_lines, skip_until_section |-> st.skip_until_section]

LegalInit ==
    /\ frame \in {LegalFrame(lines, 1, LegalState(<<>>, FALSE)) :
                    lines \in SeqsUpTo(LineShapes, MaxLines)}
    /\ pc = "legal_loop"
    /\ helperIdle

\* for line in lines: ...
LegalLine ==
    /\ pc = "legal_loop"
    /\ frame.i <= Len(frame.lines)
    /\ frame' = LegalFrame(frame.lines, frame.i + 1,
                           LegalStep(LegalState(frame.cleaned_lines, frame.skip_until_section),
                                     frame.lines, frame.i))
    /\ UNCHANGED <<pc, helperFrame>>

\* return '\n'.join(cleaned_lines)
LegalReturn ==
    /\ pc = "legal_loop"
    /\ frame.i > Len(frame.lines)
    /\ pc' = "legal_done"
    /\ UNCHANGED <<frame, helperFrame>>

LegalNext ==
    \/ LegalLine
    \/ LegalReturn

LegalSpec == LegalInit /\ [][LegalNext]_vars

\* ------------------------------------------------ clean_html_content alone
\* The parsed document is the sequence of its elements in document order.
\*   node : [tag, cls, parent, line]
\*     parent = position of the enclosing element, 0 for the soup itself
\*     line   = the text the element holds before its first child element
\* A well-formed document nests: the parent of an element is the element before
\* it or one of that element's ancestors, and a script element holds text only.
REMOVE_TAGS ==
    {"script", "style", "noscript", "iframe", "svg", "canvas", "nav", "header",
     "footer", "aside", "form", "button", "input", "select", "textarea", "label",
     "advertisement", "ads", "ad"}

MaxNodes == 3

PlainLine == Line(SECTION_HEADING_LIMIT - 1, FALSE, FALSE)
TriggerLine == Line(SECTION_HEADING_LIMIT - 1, TRUE, FALSE)

Element(t, c, l) == [tag |-> t, cls |-> c, line |-> l]

Elements ==
    {Element("div", "", PlainLine), Element("div", "", TriggerLine),
     Element("div", "cookie-banner", PlainLine),
     Element("div", "job-description", PlainLine),
     Element("main", "", PlainLine), Element("nav", "", PlainLine),
     Element("script", "", PlainLine)}

\* BOILERPLATE_REGEX.search on the class attribute
IsBoilerplate(cls) == cls = "cookie-banner"

\* re.compile(r'job|content|description', re.I) on the class attribute
IsContentClass(cls) == cls = "job-description"

RECURSIVE Ancestors(_, _)
Ancestors(soup, n) ==
    IF soup[n].parent = 0 THEN {}
    ELSE {soup[n].parent} \cup Ancestors(soup, soup[n].parent)

SelfAndAncestors(soup, n) == {n} \cup Ancestors(soup, n)

WellFormed(soup) ==
    /\ \A n \in 1..Len(soup) : soup[n].parent \in 0..(n - 1)
    /\ \A n \in 1..Len(soup) :
          /\ n > 1 => soup[n].parent \in {0} \cup SelfAndAncestors(soup, n - 1)
          /\ soup[n].parent # 0 => soup[soup[n].parent].tag # "script"

Node(e, p) == [tag |-> e.tag, cls |-> e.cls, line |-> e.line, parent |-> p]

\* a faulty variant: the element goes, what it encloses stays
Decompose_Shallow(soup, alive, elements) == alive \ elements

\* element.decompose() for every element of elements: the element and all it
\* encloses leave the tree
Decompose(soup, alive, elements) ==
    {n \in alive : SelfAndAncestors(soup, n) \cap elements = {}}

\* the first element in document order that is still in the tree and satisfies
\* Test; 0 when there is none (find returns None)
Find(soup, alive, Test(_)) ==
    LET found == {n \in alive : Test(soup[n])}
    IN  IF found = {} THEN 0 ELSE CHOOSE n \in found : \A m \in found : n <= m

\* the members of a set of positions, in document order
RECURSIVE InOrder(_)
InOrder(S) ==
    IF S = {} THEN <<>>
    ELSE LET first == CHOOSE n \in S : \A m \in S : n <= m
         IN  <<first>> \o InOrder(S \ {first})

IsMain(e) == e.tag = "main"
HasContentClass(e) == IsContentClass(e.cls)

\* _extract_clean_text: the positions of the elements whose text get_text
\* returns, one line each, in document order
_extract_clean_text(soup, alive) ==
    LET main == Find(soup, alive, IsMain)
        main_content == IF main # 0 THEN main ELSE Find(soup, alive, HasContentClass)
        inside == {n \in alive : main_content = 0 \/ main_content \in SelfAndAncestors(soup, n)}
    IN  InOrder(inside)

\* _final_cleanup: blank lines go
_final_cleanup_lines(lines, kept) == SelectSeq(kept, LAMBDA n : lines[n].len > 2)

CleanFrame(soup, alive, text) ==
    [fn |-> "clean_html_content", soup |-> soup, alive |-> alive, text |-> text]

\* soup = BeautifulSoup(html, 'html.parser'), for every well-formed document of
\* at most MaxNodes elements
CleanInit ==
    /\ \E k \in 1..MaxNodes :
          \E es \in [1..k -> Elements], ps \in [1..k -> 0..(k - 1)] :
             LET soup == [n \in 1..k |-> Node(es[n], ps[n])]
             IN  /\ WellFormed(soup)
                 /\ frame = CleanFrame(soup, 1..k, <<>>)
    /\ pc = "clean_tags"
    /\ helperIdle

\* Step 1: for tag in REMOVE_TAGS: for element in soup.find_all(tag): decompose
CleanRemoveTags ==
    /\ pc = "clean_tags"
    /\ frame' = [frame EXCEPT
                    !.alive = Decompose(frame.soup, @,
                                        {n \in frame.alive : frame.soup[n].tag \in REMOVE_TAGS})]
    /\ pc' = "clean_boilerplate"
    /\ UNCHANGED helperFrame

\* Step 2: _remove_boilerplate_elements walks the list find_all(True) returned
\* before anything was removed. Reading the attributes of an element that went
\* with an enclosing one is left to the parser library: it raises or it reads
\* them.
CleanRemoveBoilerplate ==
    /\ pc = "clean_boilerplate"
    /\ LET soup == frame.soup
           boilerplate == {n \in frame.alive : IsBoilerplate(soup[n].cls)}
           revisited == {n \in frame.alive : Ancestors(soup, n) \cap boilerplate # {}}
       IN  \/ /\ frame' = [frame EXCEPT !.alive = Decompose(soup, @, boilerplate)]
              /\ pc' = "clean_text"
           \/ /\ revisited # {}
              /\ pc' = "clean_raised"
              /\ UNCHANGED frame
    /\ UNCHANGED helperFrame

\* Steps 4 and 5 and the final cleanup
CleanExtractText ==
    /\ pc = "clean_text"
    /\ LET lines == [n \in 1..Len(frame.soup) |-> frame.soup[n].line]
           got == _extract_clean_text(frame.soup, frame.alive)
           text == [k \in 1..Len(got) |-> lines[got[k]]]
           kept == _remove_legal_sections(text)
       IN  frame' = [frame EXCEPT
                        !.text = [k \in 1..Len(_final_cleanup_lines(text, kept)) |->
                                    got[_final_cleanup_lines(text, kept)[k]]]]
    /\ pc' = "clean_done"
    /\ UNCHANGED helperFrame

CleanNext ==
    \/ CleanRemoveTags
    \/ CleanRemoveBoilerplate
    \/ CleanExtractText

CleanSpec == CleanInit /\ [][CleanNext]_vars

\* ---------------------------------------- extract_schema_job_posting alone
\* The page is the sequence of its application/ld+json script tags in document
\* order.
\*   block : [kind, items]
\*     kind  = "empty" (script.string is None or ''), "malformed" (json.loads
\*             raises), "list" (a JSON array) or "object" (a JSON object)
\*     items = the array items, or the object followed by its @graph items
\*   item  : [kind, desc]
\*     kind  = "other" (not a JobPosting), "bad_type" (an @type list holding a
\*             non-string: _is_job_posting raises TypeError), "posting" or
\*             "posting_bad_salary" (a JobPosting whose baseSalary minValue is a
\*             string: _normalize_job_posting raises ValueError)
\*     desc  = length of its description
MaxBlocks == 2
MaxItems == 2

Item(k, d) == [kind |-> k, desc |-> d]

Items ==
    {Item("other", 0), Item("bad_type", 0), Item("posting", 0), Item("posting", 40),
     Item("posting_bad_salary", 41)}

Block(k, its) == [kind |-> k, items |-> its]

\* _is_job_posting(item) when it returns
_is_job_posting(item) == item.kind \in {"posting", "posting_bad_salary"}

\* _normalize_job_posting(item) when it returns
_normalize_job_posting(item) == Schema(TRUE, item.desc)

\* the outcome of the try block on one script tag, scanning items from k on:
\* a returned record, or "continue" with the next tag
RECURSIVE ScanItems(_, _)
ScanItems(items, k) ==
    IF k > Len(items) THEN [returns |-> FALSE, ret |-> NoSchema]
    ELSE IF items[k].kind = "bad_type" THEN [returns |-> FALSE, ret |-> NoSchema]
    ELSE IF ~_is_job_posting(items[k]) THEN ScanItems(items, k + 1)
    ELSE IF items[k].kind = "posting_bad_salary" THEN [returns |-> FALSE, ret |-> NoSchema]
    ELSE [returns |-> TRUE, ret |-> _normalize_job_posting(items[k])]

\* the body of "for script in script_tags" on one tag
ScanTag(block) ==
    IF block.kind \in {"empty", "malformed"} THEN [returns |-> FALSE, ret |-> NoSchema]
    ELSE ScanItems(block.items, 1)

SchemaFrame(tags, i, ret) ==
    [fn |-> "extract_schema_job_posting", script_tags |-> tags, i |-> i, ret |-> ret]

\* script_tags = soup.find_all('script', type='application/ld+json')
SchemaInit ==
    /\ \E n \in 0..MaxBlocks :
          \E kinds \in [1..n -> {"empty", "malformed", "list", "object"}],
             lens \in [1..n -> 0..MaxItems] :
             \E items \in [1..n -> [1..MaxItems -> Items]] :
                /\ \A b \in 1..n :
                      /\ kinds[b] \in {"empty", "malformed"} => lens[b] = 0
                      /\ kinds[b] = "object" => lens[b] >= 1
                      /\ \A k \in (lens[b] + 1)..MaxItems : items[b][k] = Item("other", 0)
                /\ frame = SchemaFrame([b \in 1..n |->
                                          Block(kinds[b], SubSeq(items[b], 1, lens[b]))],
                                       1, NoSchema)
    /\ pc = "schema_scan"
    /\ helperIdle

\* one iteration of "for script in script_tags"
SchemaScanTag ==
    /\ pc = "schema_scan"
    /\ frame.i <= Len(frame.script_tags)
    /\ LET got == ScanTag(frame.script_tags[frame.i])
       IN  IF got.returns
           THEN /\ frame' = [frame EXCEPT !.ret = got.ret]
                /\ pc' = "schema_done"
           ELSE /\ frame' = [frame EXCEPT !.i = @ + 1]
                /\ pc' = pc
    /\ UNCHANGED helperFrame

\* return None
SchemaReturnNone ==
    /\ pc = "schema_scan"
    /\ frame.i > Len(frame.script_tags)
    /\ frame' = [frame EXCEPT !.ret = NoSchema]
    /\ pc' = "schema_done"
    /\ UNCHANGED helperFrame

SchemaNext ==
    \/ SchemaScanTag
    \/ SchemaReturnNone

SchemaSpec == SchemaInit /\ [][SchemaNext]_vars

\* =================================================================== claims
Done == pc = "done"

ValidInput == ~IsBlank(url) /\ mode \in ValidModes

TextEmpty == ~Truthy(result.raw_text)

ErrorPresent == result.error # NoError

StaticHtml == fetch_result.html

\* C1: in every mode, a returned result has source 'none' if and only if its text
\* is empty and its error is present.
C1_SourceNoneIffEmptyAndError ==
    Done => ((result.source = "none") <=> (TextEmpty /\ ErrorPresent))

ObtainedStaticText ==
    /\ fetch_result.success
    /\ \/ Called("clean_html_content") /\ Truthy(clean_html_content(StaticHtml))
       \/ Called("extract_with_trafilatura") /\ Truthy(extract_with_trafilatura(StaticHtml))

ObtainedRenderedText == Called("_fetch_with_playwright") /\ Truthy(pw_ret.text)

\* C2: in auto mode, if the cleaned static text, the generic-extractor text or the
\* text the rendered fetcher returned is non-empty, the result has non-empty text
\* and a source other than 'none'.
C2_AnyObtainedTextIsReturned ==
    (Done /\ mode = "auto" /\ (ObtainedStaticText \/ ObtainedRenderedText))
        => (~TextEmpty /\ result.source # "none")

StructuredFound ==
    /\ mode = "auto"
    /\ fetch_result.success
    /\ HasDescription(extract_schema_job_posting(StaticHtml))

\* C3: in auto mode, once the static fetch succeeded on a page whose structured
\* record has a non-empty description, the rendered fetcher is never invoked and
\* the run ends with source 'schema'.
C3_StructuredWinsWithoutRendering ==
    StructuredFound =>
        /\ ~Called("_fetch_with_playwright")
        /\ playwright = "none" /\ browser = "none"
        /\ pc \in {"auto_extract", "done"}
        /\ Done => /\ result.source = "schema"
                   /\ result.schema_data = extract_schema_job_posting(StaticHtml)
                   /\ result.error = NoError

C3_Witness == StructuredFound /\ Done /\ result.source = "schema"

\* C4: fetch_job_description raises only for an empty/blank url or a mode outside
\* the enumerated set.
C4_RaisesOnlyForBadInput == pc = "raised" => ~ValidInput

\* C5: with an empty/blank url or an invalid mode the call fails with the input
\* error before platform detection and before any static or rendered fetch.
C5_InputErrorBeforeAnyWork ==
    ~ValidInput =>
        /\ pc \in {"start", "raised"}
        /\ calls = <<>> /\ staticLog = <<>>
        /\ playwright = "none" /\ browser = "none"
        /\ pc = "raised" => exc = InputError(url, mode) /\ exc # ""

C5_Witness == pc = "raised" /\ ~IsBlank(url) /\ exc = "ValueError: Invalid mode"

\* C6: in static mode, when the last static fetch ended with a non-2xx status and
\* no fetch succeeded, the result has source 'none' and an error holding the code.
C6_StaticHttpErrorIsNone ==
    (Done /\ mode = "requests" /\ ~fetch_result.success
          /\ fetch_result.status_code \in FailStatus)
        => (result.source = "none" /\ result.error.code = fetch_result.status_code)

StaticRejected ==
    \/ ~fetch_result.success
    \/ /\ ~HasDescription(extract_schema_job_posting(StaticHtml))
       /\ ~_is_content_valid(clean_html_content(StaticHtml))
       /\ ~is_meaningful_content(extract_with_trafilatura(StaticHtml), TRAF_MIN_LENGTH)

\* C7: in auto mode a run ends only after invoking the rendered fetcher when every
\* static fetch failed, or when the fetch succeeded but no structured description
\* was found, the validator rejected the cleaned text and the stricter check
\* rejected the generic-extractor text.
C7_RejectedStaticReachesRendered ==
    /\ (Done /\ mode = "auto" /\ StaticRejected) => Called("_fetch_with_playwright")
    /\ (pc = "pw_call" /\ mode = "auto") => StaticRejected

C7_Witness ==
    /\ Done /\ mode = "auto" /\ fetch_result.success
    /\ clean_html_content(StaticHtml) = Text(300, 0, 0, 0)
    /\ Called("_fetch_with_playwright")

\* C8: the static fetcher runs at most twice; the first fetch targets the canonical
\* (or unchanged) url, a second one happens only after a failed first fetch of a
\* rewritten url and targets the original url.
C8_StaticFetchAtMostTwice ==
    /\ Len(staticLog) <= 2
    /\ CountCalls("_fetch_with_requests") = Len(staticLog)
    /\ Len(staticLog) >= 1 => staticLog[1].url = fetch_url_to_use
    /\ Len(staticLog) = 2 =>
          /\ resolved.was
          /\ ~staticLog[1].success
          /\ staticLog[2].url = url
          /\ staticLog[2].url # staticLog[1].url

C8_Witness == Done /\ Len(staticLog) = 2 /\ staticLog[2].success

\* C9: every run with valid input ends by returning a result, with at most two
\* static fetches, one rendered-fetcher call and 3 extraction attempts.
C9_ValidInputReturnsWithinBounds ==
    /\ (ValidInput /\ Terminal) => Done
    /\ Len(staticLog) <= 2
    /\ CountCalls("_fetch_with_playwright") <= 1
    /\ attempt < MAX_EXTRACTION_ATTEMPTS

\* C10: once _fetch_with_playwright has returned, no launched browser is open.
C10_BrowserClosedOnEveryExit ==
    /\ pc \in {"pw_return", "done", "raised"} => browser # "open" /\ playwright # "running"
    /\ browser = "open" => playwright = "running"

C10_Witness ==
    /\ pc = "pw_return"
    /\ browser = "closed"
    /\ pw_ret = PlaywrightError

StaticCleaned == clean_html_content(StaticHtml)

StaticTraf == extract_with_trafilatura(StaticHtml)

AtLeastAsLong(t, x) == RawLen(t) >= RawLen(x)

AutoFallback ==
    /\ Done /\ mode = "auto"
    /\ fetch_result.success
    /\ ~HasDescription(extract_schema_job_posting(StaticHtml))
    /\ ~_is_content_valid(StaticCleaned)
    /\ ~is_meaningful_content(StaticTraf, TRAF_MIN_LENGTH)
    /\ Called("_fetch_with_playwright") /\ ~Truthy(pw_ret.text)
    /\ (Truthy(StaticCleaned) \/ Truthy(StaticTraf))

\* C11: in auto mode, when no static text was accepted and the rendered fetcher
\* returned no text, the result text is the longest non-empty candidate among the
\* cleaned static text and the generic-extractor text, the source names the stage
\* that produced it ('requests' or 'trafilatura'), and an error is present.
C11_FallbackIsLongestCandidateWithItsStage ==
    AutoFallback =>
        /\ result.raw_text \in {StaticCleaned, StaticTraf}
        /\ Truthy(result.raw_text)
        /\ AtLeastAsLong(result.raw_text, StaticCleaned)
        /\ AtLeastAsLong(result.raw_text, StaticTraf)
        /\ result.raw_text # StaticCleaned => result.source = "trafilatura"
        /\ result.raw_text # StaticTraf => result.source = "requests"
        /\ ErrorPresent

StaticModeReturned == Done /\ mode = "requests" /\ fetch_result.success

\* C12: in static mode the generic-extractor text becomes the result text only
\* when it passes the stricter check (at least 2 distinct keywords, 500-character
\* floor), and the source names the stage whose text is returned.
C12_StaticExtractorTextPassesStricterCheck ==
    StaticModeReturned =>
        /\ result.source \in {"schema", "requests", "trafilatura"}
        /\ result.source = "schema" =>
              result.raw_text = schema_to_text(extract_schema_job_posting(StaticHtml))
        /\ result.source = "requests" => result.raw_text = StaticCleaned
        /\ result.source = "trafilatura" =>
              /\ result.raw_text = StaticTraf
              /\ is_meaningful_content(StaticTraf, TRAF_MIN_LENGTH)

\* C13: in auto mode, when the rendered fetcher was reached and returned a text of
\* at least 200 characters (200 included), the result has source 'playwright',
\* that text, and no error.
C13_RenderedTextAtFloorIsAccepted ==
    (/\ Done /\ mode = "auto"
     /\ Called("_fetch_with_playwright")
     /\ Truthy(pw_ret.text) /\ RawLen(pw_ret.text) >= PW_MIN_LENGTH)
        => /\ result.source = "playwright"
           /\ result.raw_text = pw_ret.text
           /\ result.error = NoError

PwReturned == Called("_fetch_with_playwright") /\ pc \in {"pw_return", "done"}

\* C14: every return of _fetch_with_playwright is either a text whose cleaned
\* length is at least 200 with an empty error, or no text with a non-empty error;
\* a text under the floor is never returned.
C14_RenderedOutcomeIsTextOrError ==
    PwReturned =>
        \/ /\ Truthy(pw_ret.text)
           /\ RawLen(pw_ret.text) >= PW_MIN_LENGTH
           /\ pw_ret.err = ""
        \/ /\ pw_ret.text = EmptyText
           /\ pw_ret.err \notin {"", "unset"}

C14_Witness ==
    /\ pc = "pw_return"
    /\ pw_ret.err = ""
    /\ RawLen(pw_ret.text) = PW_MIN_LENGTH
    /\ extracted_text.junk > 0

StaticComponents ==
    {"_fetch_with_requests", "extract_schema_job_posting", "clean_html_content",
     "extract_with_trafilatura"}

\* C15: in rendered mode the rendered fetcher is invoked exactly once, on the
\* canonicalized url; the static fetcher, the structured extractor, the cleaner
\* and the generic extractor are never invoked; the result carries the rendered
\* fetcher's text, and its error whenever it reported one.
C15_RenderedModeCallsOnlyRenderedFetcher ==
    mode = "playwright" =>
        /\ staticLog = <<>>
        /\ \A i \in 1..Len(calls) : calls[i] \notin StaticComponents
        /\ CountCalls("_fetch_with_playwright") <= 1
        /\ Called("_fetch_with_playwright") =>
              pw_url = IF resolved.was THEN resolved.url ELSE url
        /\ Done =>
              /\ CountCalls("_fetch_with_playwright") = 1
              /\ result.source = "playwright"
              /\ result.raw_text = pw_ret.text
              /\ pw_ret.err # "" =>
                    result.error = Err("playwright", "", 0, pw_ret.err, pw_ret.chars)
              /\ PlaywrightAccepted(pw_ret.text) => result.error = NoError

C15_Witness ==
    /\ Done /\ mode = "playwright"
    /\ resolved.was /\ pw_url = resolved.url /\ pw_url # url
    /\ Truthy(result.raw_text)

\* C16: canonicalization is idempotent: when resolve_url(u, p) returned (u', w),
\* resolve_url(u', p) returns (u', FALSE).
C16_ResolveUrlIdempotent ==
    pc = "url_again" => resolved = Resolved(url, FALSE)

CarriesGhJid(u) == u.jid # ""

\* C17: every url that carries the gh_jid query parameter is detected as
\* 'greenhouse', whatever its hostname.
C17_GhJidDetectedAsGreenhouse ==
    (pc \in {"url_resolve", "url_resolved"} /\ CarriesGhJid(url))
        => source = "greenhouse"

SlugRecoverable(u) == _extract_greenhouse_company(u) # ""

OffGreenhouseWithGhJid ==
    /\ pc \in {"url_resolved", "url_raised"}
    /\ url.host \notin GreenhouseHosts
    /\ CarriesGhJid(url)

\* C18: for a url on a non-Greenhouse domain that carries gh_jid, resolve_url
\* reports a rewrite and returns a boards.greenhouse.io url: /{slug}/jobs/{id}
\* when the slug is recoverable from the url or its query, otherwise the embed
\* url whose token is the job id.
C18_GhJidRewrittenToBoards ==
    OffGreenhouseWithGhJid =>
        /\ pc = "url_resolved"
        /\ resolved.was
        /\ resolved.url.host = "boards.greenhouse.io"
        /\ resolved.url =
              IF SlugRecoverable(url)
              THEN GreenhouseJobUrl(_extract_greenhouse_company(url), url.jid)
              ELSE GreenhouseEmbedUrl(url.jid)

ResultBuilt == pc \notin {"start", "detect", "resolve", "raised"}

\* C19: in every result resolved_url differs from url only if resolve_url reported
\* a rewrite, and then it is the rewritten url; without a rewrite it equals url;
\* on platforms other than Greenhouse and Lever the url is never rewritten.
C19_ResolvedUrlDiffersOnlyWhenRewritten ==
    ResultBuilt =>
        /\ result.url = url
        /\ result.resolved_url # result.url => resolved.was
        /\ ~resolved.was => result.resolved_url = result.url
        /\ resolved.was => result.resolved_url = resolved.url
        /\ source \notin {"greenhouse", "lever"} =>
              ~resolved.was /\ resolved.url = url /\ result.resolved_url = url

C19_Witness ==
    /\ Done
    /\ resolved.was
    /\ result.resolved_url # result.url
    /\ result.resolved_url = resolved.url

\* C20: in every mode, a result whose schema_data is present has source 'schema'.
C20_SchemaDataImpliesSchemaSource ==
    result.schema_data # NoSchema =>
        /\ result.source = "schema"
        /\ HasDescription(result.schema_data)

C20_Witness ==
    /\ Done /\ mode = "requests"
    /\ result.schema_data # NoSchema
    /\ result.source = "schema"

\* the keyword list as the specification gives it
ListedKeywords == JD_INDICATORS \ {"who you are", "job description"}

SaysOneOf(w, keywords) == \E p \in w.phrases : IndicatorsIn(p) \cap keywords # {}

Validated == pc \in {"valid_append", "valid_done"}

\* C21 (as stated): the validator accepts a text iff its trimmed length is at
\* least 1000 and it contains, case-insensitively, one of the twelve listed
\* keywords.
C21_AcceptsIffLongWithListedKeyword ==
    Validated =>
        (frame.ret <=> /\ frame.text.body >= MIN_CONTENT_LENGTH
                       /\ SaysOneOf(frame.text, ListedKeywords))

\* C21 (amended): the validator accepts a text iff its trimmed length is at
\* least 1000 and it contains, case-insensitively, one of the fourteen
\* JD_INDICATORS (the twelve listed ones, "who you are" and "job description").
C21_AcceptsIffLongWithIndicator ==
    Validated =>
        (frame.ret <=> /\ frame.text.body >= MIN_CONTENT_LENGTH
                       /\ SaysOneOf(frame.text, JD_INDICATORS))

C21_Witness ==
    /\ Validated
    /\ frame.ret
    /\ frame.text.phrases = {"Who You Are"}
    /\ frame.text.body = MIN_CONTENT_LENGTH /\ frame.text.lead > 0

\* C22: appending never invalidates: when the validator accepts t it accepts
\* t followed by any suffix s.
C22_ValidatorMonotonicUnderAppend ==
    (pc = "valid_done" /\ frame.ret) => frame.ret_appended

C22_Witness ==
    /\ pc = "valid_done"
    /\ frame.ret /\ frame.ret_appended
    /\ frame.text.trail = 0
    /\ frame.suffix.body = 0 /\ frame.suffix.lead > 0

\* auto mode returned after a successful static fetch of 1500 characters of HTML
\* in which 'Responsibilities' and 'Qualifications' occur
ScenarioPage ==
    /\ Done /\ mode = "auto"
    /\ fetch_result.success
    /\ StaticHtml.len = 1500
    /\ StaticHtml.kw >= 2

StaticSuccess ==
    /\ result.source \in {"schema", "requests"}
    /\ ~TextEmpty
    /\ result.error = NoError

InsideRemovedTag(soup, n) ==
    \E a \in SelfAndAncestors(soup, n) : soup[a].tag \in REMOVE_TAGS

Cleaned == pc = "clean_done"

\* C24: for every well-formed document, the text clean_html_content returns holds
\* no text that stood inside an element whose tag is in REMOVE_TAGS, however
\* deeply nested.
C24_NoTextFromRemovedTags ==
    Cleaned => \A k \in 1..Len(frame.text) : ~InsideRemovedTag(frame.soup, frame.text[k])

\* a document with text in an element nested in a nav element, and text outside
\* the nav element that is returned
C24_Witness ==
    /\ Cleaned
    /\ frame.text # <<>>
    /\ \E n \in 1..Len(frame.soup) :
          /\ frame.soup[n].tag \notin REMOVE_TAGS
          /\ \E a \in Ancestors(frame.soup, n) : frame.soup[a].tag = "nav"


\* an extraction step of the attempt loop of _fetch_with_playwright is next
InExtractionLoop ==
    pc \in {"att_iframe", "att_content", "att_ats", "att_semantic", "att_all"}

\* C25: in the extraction loop of the rendered fetcher the trimmed length of the
\* kept candidate never decreases from one step or attempt to the next, at most
\* MAX_EXTRACTION_ATTEMPTS attempts run, and no step or attempt runs once the
\* candidate has reached MIN_CONTENT_LENGTH.
C25_CandidateGrowsUntilThreshold ==
    /\ [](InExtractionLoop =>
            /\ attempt < MAX_EXTRACTION_ATTEMPTS
            /\ StripLen(extracted_text) < MIN_CONTENT_LENGTH)
    /\ [][InExtractionLoop => StripLen(extracted_text') >= StripLen(extracted_text)]_vars

\* the loop was left in its last attempt because the candidate reached the
\* threshold
C25_Witness ==
    /\ pc = "pw_close"
    /\ attempt = MAX_EXTRACTION_ATTEMPTS - 1
    /\ StripLen(extracted_text) >= MIN_CONTENT_LENGTH


\* the job-posting records of the tags that parse, in document order
RECURSIVE RecordsFrom(_, _)
RecordsFrom(tags, b) ==
    IF b > Len(tags) THEN <<>>
    ELSE (IF tags[b].kind \in {"list", "object"}
          THEN SelectSeq(tags[b].items, _is_job_posting)
          ELSE <<>>) \o RecordsFrom(tags, b + 1)

SchemaScanned == pc = "schema_done"

\* C26: the scan returns the normal form of the first job-posting record, in
\* document order, of the script tags that parse, and None when they hold none;
\* a later record is never returned in its place.
C26_FirstRecordWins ==
    SchemaScanned =>
        LET records == RecordsFrom(frame.script_tags, 1)
        IN  frame.ret = IF records = <<>> THEN NoSchema
                        ELSE _normalize_job_posting(records[1])


LegalDone == pc = "legal_done"

\* line i is short and matches a legal pattern
Triggers(lines, i) == lines[i].legal /\ lines[i].len < LEGAL_TRIGGER_LIMIT

\* line i is a short line that ends with ':'
HeadingLike(lines, i) ==
    /\ lines[i].len > 0
    /\ lines[i].len < SECTION_HEADING_LIMIT
    /\ lines[i].colon

Kept(i) == \E k \in 1..Len(frame.cleaned_lines) : frame.cleaned_lines[k] = i

\* no line in a..b satisfies Test
NoneBetween(lines, a, b, Test(_, _)) == \A h \in a..b : ~Test(lines, h)

\* no line that matches a legal pattern is in the result
NoLegalLineKept == \A i \in 1..Len(frame.lines) : Kept(i) => ~frame.lines[i].legal

\* C27 (as stated): after a short legal line every following line is dropped
\* until the next heading-like line; that line and the lines after it are kept
\* until another trigger; no line matching a legal pattern is in the result.
C27_SectionDroppedUntilHeading ==
    LegalDone =>
        LET lines == frame.lines
        IN  /\ \A t \in 1..Len(lines) : \A j \in (t + 1)..Len(lines) :
                  (Triggers(lines, t) /\ NoneBetween(lines, t + 1, j, HeadingLike))
                      => ~Kept(j)
            /\ \A t \in 1..Len(lines) : \A h \in (t + 1)..Len(lines) :
                  (/\ Triggers(lines, t)
                   /\ HeadingLike(lines, h) /\ ~lines[h].legal
                   /\ NoneBetween(lines, t + 1, h - 1, HeadingLike))
                      => /\ Kept(h)
                         /\ \A j \in (h + 1)..Len(lines) :
                               (~lines[j].legal /\ NoneBetween(lines, h + 1, j, Triggers))
                                   => Kept(j)
            /\ NoLegalLineKept

\* C27 (amended): the same for the lines that are not blank; a blank line is
\* kept exactly when the result so far ends with a line that is not blank.
C27_NonBlankSectionDroppedUntilHeading ==
    LegalDone =>
        LET lines == frame.lines
            out == frame.cleaned_lines
        IN  /\ \A t \in 1..Len(lines) : \A j \in (t + 1)..Len(lines) :
                  (/\ Triggers(lines, t)
                   /\ lines[j].len > 0
                   /\ NoneBetween(lines, t + 1, j, HeadingLike))
                      => ~Kept(j)
            /\ \A t \in 1..Len(lines) : \A h \in (t + 1)..Len(lines) :
                  (/\ Triggers(lines, t)
                   /\ HeadingLike(lines, h) /\ ~lines[h].legal
                   /\ NoneBetween(lines, t + 1, h - 1, HeadingLike))
                      => /\ Kept(h)
                         /\ \A j \in (h + 1)..Len(lines) :
                               (/\ ~lines[j].legal
                                /\ lines[j].len > 0
                                /\ NoneBetween(lines, h + 1, j, Triggers))
                                   => Kept(j)
            /\ NoLegalLineKept
            /\ \A i \in 1..Len(lines) :
                  lines[i].len = 0 =>
                      (Kept(i) <=> \E k \in 1..(i - 1) :
                                      /\ Kept(k)
                                      /\ lines[k].len > 0
                                      /\ \A m \in (k + 1)..(i - 1) : ~Kept(m))

\* a trigger, a dropped line, a heading-like line that is kept and a line after
\* it that is kept
C27_Witness ==
    /\ LegalDone
    /\ Len(frame.lines) = 4
    /\ Triggers(frame.lines, 1)
    /\ frame.lines[2].len > 0 /\ ~frame.lines[2].legal /\ ~Kept(2)
    /\ HeadingLike(frame.lines, 3) /\ Kept(3)
    /\ ~HeadingLike(frame.lines, 4) /\ Kept(4)


\* C28: a url without a gh_jid parameter whose hostname matches no vendor
\* pattern is classified generic, whatever its path and the rest of its query
\* hold.
C28_PlainHostWithoutEmbedParamIsGeneric ==
    (/\ pc = "url_resolve"
     /\ url.jid = ""
     /\ url.host = "example.com")
        => source = "generic"


\* C29: in every returned result, of every mode, a result without an error holds
\* a non-empty text.
C29_NoErrorMeansText == (Done /\ ~ErrorPresent) => ~TextEmpty

\* static mode returned the extractor's text, which fails the validity check,
\* without an error
C29_Witness ==
    /\ Done /\ ~ErrorPresent
    /\ mode = "requests"
    /\ result.source = "trafilatura"
    /\ ~TextEmpty
    /\ ~_is_content_valid(result.raw_text)


\* the result text was produced from a static fetch
TextFromStaticFetch ==
    /\ Done
    /\ fetch_result.success
    /\ result.source \in {"schema", "requests", "trafilatura"}
    /\ ~TextEmpty

\* C30: when the text was produced from a static fetch, resolved_url is the url
\* the successful _fetch_with_requests call was issued against, also when that
\* call was the retry against the original url.
C30_ResolvedUrlIsFetchedUrl ==
    TextFromStaticFetch => result.resolved_url = staticLog[Len(staticLog)].url

====
